---- MODULE Spec2Model ----
(***************************************************************************)
(* count_exts: reads paths from standard input, one per line, tallies the  *)
(* lowercased extension of each non-blank trimmed path in a hash map, then *)
(* prints the tally sorted by count (src/src/main.rs).                     *)
(*                                                                         *)
(* A string is a sequence of characters; a character is a one-element      *)
(* token.  "SIGMA", "sigma" and "fsigma" stand for U+03A3, U+03C3 and      *)
(* U+03C2 (capital, small and final small Greek sigma), the one letter     *)
(* str::to_lowercase treats by context.                                    *)
(***************************************************************************)
EXTENDS Naturals, Sequences, FiniteSets

VARIABLES
    read,      \* the lines handle.lines() has yielded Ok so far
    counts,    \* the HashMap<String, usize> of main
    before,    \* that map as the latest loop iteration found it
    ext,       \* the local `ext` of the latest loop iteration (None: not assigned)
    pc,        \* "read" (in the for loop), "print" (in the print loop), "exit"
    vec,       \* the sorted Vec<(String, usize)> main iterates to print
    out,       \* the lines written to standard output
    readErr,   \* whether handle.lines() has yielded an Err
    status     \* "running", "success" (exit 0) or "failure" (exit 1)

vars == <<read, counts, before, ext, pc, vec, out, readErr, status>>

\* ------------------------------------------------------------------ bounds

\* Lines read from standard input in one run.
MaxLines == 3

\* Length of a path in the single-ingestion specification.
MaxLen == 5

\* ------------------------------------------------------------ characters

Alphabet == {"a", "A", "SIGMA", "sigma", "fsigma", ".", "/", " "}

\* char::is_whitespace, which str::trim strips.
IsWhitespace(c) == c = " "

\* The Unicode Cased property, on the alphabet.
IsCased(c) == c \in {"a", "A", "b", "B", "SIGMA", "sigma", "fsigma"}

\* The Unicode Case_Ignorable property, on the alphabet (U+002E is MidNumLet).
IsCaseIgnorable(c) == c = "."

\* core::unicode::conversions::to_lower for one character.
ToLowerChar(c) ==
    CASE c = "A" -> "a"
      [] c = "B" -> "b"
      [] c = "SIGMA" -> "sigma"
      [] OTHER -> c

\* --------------------------------------------------------------- strings

Rev(s) == [i \in 1..Len(s) |-> s[Len(s) + 1 - i]]

\* str::trim: strip leading and trailing whitespace.
RECURSIVE TrimStart(_)
TrimStart(s) ==
    IF s # <<>> /\ IsWhitespace(Head(s)) THEN TrimStart(Tail(s)) ELSE s

Trim(s) == Rev(TrimStart(Rev(TrimStart(s))))

\* case_ignorable_then_cased: skip case-ignorable characters, then see a cased one.
RECURSIVE CaseIgnorableThenCased(_)
CaseIgnorableThenCased(s) ==
    IF s = <<>> THEN FALSE
    ELSE IF IsCaseIgnorable(Head(s)) THEN CaseIgnorableThenCased(Tail(s))
    ELSE IsCased(Head(s))

\* map_uppercase_sigma: capital sigma at position i of `from` lowercases to the
\* final form when a cased letter precedes it and none follows.
MapUppercaseSigma(from, i) ==
    IF /\ CaseIgnorableThenCased(Rev(SubSeq(from, 1, i - 1)))
       /\ ~CaseIgnorableThenCased(SubSeq(from, i + 1, Len(from)))
    THEN "fsigma"
    ELSE "sigma"

\* str::to_lowercase.
ToLowercase(s) ==
    [i \in 1..Len(s) |->
        IF s[i] = "SIGMA" THEN MapUppercaseSigma(s, i) ELSE ToLowerChar(s[i])]

\* ----------------------------------------------------------------- paths

\* The path split at every "/" (the Unix separator).
RECURSIVE SplitFrom(_, _, _)
SplitFrom(s, i, cur) ==
    IF i > Len(s) THEN <<cur>>
    ELSE IF s[i] = "/" THEN <<cur>> \o SplitFrom(s, i + 1, <<>>)
    ELSE SplitFrom(s, i + 1, Append(cur, s[i]))

Split(s) == SplitFrom(s, 1, <<>>)

\* One piece of the path as Components classifies it: empty pieces (repeated or
\* trailing separators) and "." pieces are skipped, except a "." that opens a
\* relative path, which is CurDir.
ParseComponent(piece, first) ==
    IF piece = <<>> THEN <<>>
    ELSE IF piece = <<".">> THEN
        (IF first THEN <<[kind |-> "CurDir", name |-> piece]>> ELSE <<>>)
    ELSE IF piece = <<".", ".">> THEN <<[kind |-> "ParentDir", name |-> piece]>>
    ELSE <<[kind |-> "Normal", name |-> piece]>>

RECURSIVE ComponentsFrom(_, _)
ComponentsFrom(pieces, i) ==
    IF i > Len(pieces) THEN <<>>
    ELSE ParseComponent(pieces[i], i = 1) \o ComponentsFrom(pieces, i + 1)

\* Path::components on Unix.
Components(path) ==
    (IF path # <<>> /\ Head(path) = "/"
        THEN <<[kind |-> "RootDir", name |-> <<"/">>]>> ELSE <<>>)
    \o ComponentsFrom(Split(path), 1)

None == [some |-> FALSE]
Some(v) == [some |-> TRUE, val |-> v]

\* Path::file_name: the last component, if it is a normal one.
FileName(path) ==
    LET cs == Components(path) IN
    IF cs # <<>> /\ cs[Len(cs)].kind = "Normal"
    THEN Some(cs[Len(cs)].name)
    ELSE None

\* Index of the last "." of a file name, 0 when it has none.
RECURSIVE LastDot(_, _)
LastDot(file, i) ==
    IF i = 0 THEN 0 ELSE IF file[i] = "." THEN i ELSE LastDot(file, i - 1)

\* Path::extension without the rule for a leading ".": a hidden file's name
\* after the "." passes for an extension.
ExtensionOfHiddenFile(path) ==
    LET f == FileName(path) IN
    IF ~f.some THEN None
    ELSE LET d == LastDot(f.val, Len(f.val)) IN
         IF d = 0 THEN None
         ELSE Some(SubSeq(f.val, d + 1, Len(f.val)))

\* Path::extension: the part of the file name after its last ".", unless the
\* name has no "." or its only "." is its first character.
Extension(path) ==
    LET f == FileName(path) IN
    IF ~f.some THEN None
    ELSE LET d == LastDot(f.val, Len(f.val)) IN
         IF d <= 1 THEN None
         ELSE Some(SubSeq(f.val, d + 1, Len(f.val)))

\* main, lines 45-48: the lowercased extension, or the empty string.
ExtOf(path) ==
    LET e == Extension(path) IN
    IF e.some THEN ToLowercase(e.val) ELSE <<>>

\* ------------------------------------------------------------- the tally

EmptyMap == [k \in {} |-> 0]

\* counts.insert(ext, 1): the entry is overwritten, not incremented.
IncrementOverwrites(m, k) == [x \in DOMAIN m \cup {k} |-> IF x = k THEN 1 ELSE m[x]]

\* *counts.entry(ext).or_insert(0) += 1
Increment(m, k) ==
    [x \in DOMAIN m \cup {k} |->
        IF x = k THEN (IF k \in DOMAIN m THEN m[k] ELSE 0) + 1 ELSE m[x]]

\* The iteration with the emptiness test made before trimming.
IngestTestsUntrimmed(m, line) ==
    IF line = <<>> THEN m ELSE Increment(m, ExtOf(Trim(line)))

\* One iteration of main's read loop on a line that was read successfully.
Ingest(m, line) ==
    LET path == Trim(line) IN
    IF path = <<>> THEN m ELSE Increment(m, ExtOf(path))

\* The local `ext` after that iteration; `continue` leaves it unassigned.
ExtAfter(line) ==
    LET path == Trim(line) IN
    IF path = <<>> THEN None ELSE Some(ExtOf(path))

\* ------------------------------------------------------------ the report

\* The orders in which HashMap::into_iter may yield the entries of m.
IterOrders(m) ==
    LET n == Cardinality(DOMAIN m) IN
    {[i \in 1..n |-> <<f[i], m[f[i]]>>] :
        f \in {g \in [1..n -> DOMAIN m] : \A i, j \in 1..n : g[i] = g[j] => i = j}}

\* Insert entry e after every entry of the sorted v whose count is not greater.
RECURSIVE InsertByCount(_, _)
InsertByCount(v, e) ==
    IF v = <<>> THEN <<e>>
    ELSE IF v[Len(v)][2] <= e[2] THEN Append(v, e)
    ELSE Append(InsertByCount(SubSeq(v, 1, Len(v) - 1), e), v[Len(v)])

\* The vector left in the map's iteration order.
SortOmitted(v) == v

\* The vector sorted by count, descending.
SortByKeyDescending(v) ==
    LET RECURSIVE Desc(_)
        Desc(w) ==
            IF w = <<>> THEN <<>>
            ELSE LET rest == Desc(SubSeq(w, 1, Len(w) - 1))
                     e == w[Len(w)]
                     n == Cardinality({i \in 1..Len(rest) : rest[i][2] >= e[2]})
                 IN SubSeq(rest, 1, n) \o <<e>> \o SubSeq(rest, n + 1, Len(rest))
    IN Desc(v)

\* counts.sort_by_key(|(_, count)| *count): a stable sort, ascending by count.
RECURSIVE SortByKey(_)
SortByKey(v) ==
    IF v = <<>> THEN <<>>
    ELSE InsertByCount(SortByKey(SubSeq(v, 1, Len(v) - 1)), v[Len(v)])

Digit(d) ==
    CASE d = 0 -> "0" [] d = 1 -> "1" [] d = 2 -> "2" [] d = 3 -> "3" [] d = 4 -> "4"
      [] d = 5 -> "5" [] d = 6 -> "6" [] d = 7 -> "7" [] d = 8 -> "8" [] d = 9 -> "9"

\* The Display of a usize: its decimal digits.
RECURSIVE ToDecimal(_)
ToDecimal(n) ==
    IF n < 10 THEN <<Digit(n)>> ELSE Append(ToDecimal(n \div 10), Digit(n % 10))

NoExtensionLabel ==
    <<"[", "n", "o", " ", "e", "x", "t", "e", "n", "s", "i", "o", "n", "]">>

\* The label without the marker for the empty extension.
ExtDisplayNoMarker(e) == <<".">> \o e

\* main, lines 58-62: the label of an extension.
ExtDisplay(e) == IF e = <<>> THEN NoExtensionLabel ELSE <<".">> \o e

\* println!("{ext_display}: {count}") for one entry.
FormatLine(entry) == ExtDisplay(entry[1]) \o <<":", " ">> \o ToDecimal(entry[2])

\* ---------------------------------------------------------------- inputs

\* The lines a run of main draws its input from: blank and whitespace-only
\* lines, extensions in both cases, names without an extension, a hidden file,
\* a "." in a directory name only, surrounding whitespace.
SampleLines ==
    { <<>>,
      <<" ">>,
      <<"a", ".", "a">>,
      <<"a", ".", "A">>,
      <<"a", ".", "b">>,
      <<" ", "a", ".", "B", " ">>,
      <<"a">>,
      <<".", "a">>,
      <<"a", ".", "a", "/", "a">> }

\* --------------------------------------------------------------- actions

Init ==
    /\ read = <<>>
    /\ counts = EmptyMap
    /\ before = EmptyMap
    /\ ext = None
    /\ pc = "read"
    /\ vec = <<>>
    /\ out = <<>>
    /\ readErr = FALSE
    /\ status = "running"

\* The iteration printing the running count of the line's key as it goes.
ReadLineStreaming(line) ==
    /\ pc = "read"
    /\ read' = Append(read, line)
    /\ before' = counts
    /\ counts' = Ingest(counts, line)
    /\ ext' = ExtAfter(line)
    /\ out' = IF ExtAfter(line).some
                THEN Append(out, FormatLine(<<ExtOf(Trim(line)), Ingest(counts, line)[ExtOf(Trim(line))]>>))
                ELSE out
    /\ UNCHANGED <<pc, vec, readErr, status>>

\* handle.lines() yields Ok(line): one iteration of the for loop (lines 38-51).
ReadLine(line) ==
    /\ pc = "read"
    /\ read' = Append(read, line)
    /\ before' = counts
    /\ counts' = Ingest(counts, line)
    /\ ext' = ExtAfter(line)
    /\ UNCHANGED <<pc, vec, out, readErr, status>>

\* An Err line skipped like a blank one, the loop going on.
ReadErrorSkipped ==
    /\ pc = "read"
    /\ readErr' = TRUE
    /\ UNCHANGED <<read, counts, before, ext, pc, vec, out, status>>

\* handle.lines() yields Err: `line?` returns it from main (line 39); the
\* runtime reports it and the process exits with status 1.
ReadError ==
    /\ pc = "read"
    /\ readErr' = TRUE
    /\ pc' = "exit"
    /\ status' = "failure"
    /\ UNCHANGED <<read, counts, before, ext, vec, out>>

\* handle.lines() is exhausted: collect the map in its iteration order and
\* sort the vector (lines 54-55).
EndOfInput ==
    /\ pc = "read"
    /\ \E order \in IterOrders(counts) : vec' = SortByKey(order)
    /\ pc' = "print"
    /\ UNCHANGED <<read, counts, before, ext, out, readErr, status>>

\* One iteration of the print loop (lines 57-64).
PrintLine ==
    /\ pc = "print"
    /\ Len(out) < Len(vec)
    /\ out' = Append(out, FormatLine(vec[Len(out) + 1]))
    /\ UNCHANGED <<read, counts, before, ext, pc, vec, readErr, status>>

\* The print loop is over: Ok(()) (line 66), exit status 0.
Finish ==
    /\ pc = "print"
    /\ Len(out) = Len(vec)
    /\ pc' = "exit"
    /\ status' = "success"
    /\ UNCHANGED <<read, counts, before, ext, vec, out, readErr>>

Next ==
    \/ Len(read) < MaxLines /\ \E line \in SampleLines : ReadLine(line)
    \/ ReadError
    \/ EndOfInput
    \/ PrintLine
    \/ Finish

Spec == Init /\ [][Next]_vars

\* Single ingestion: one sample line builds a tally, then one path of at most
\* MaxLen characters over the alphabet is ingested.
AllPaths == UNION {[1..n -> Alphabet] : n \in 0..MaxLen}

FirstLines == { <<"a">>, <<"a", ".", "a">> }

NextExt ==
    \/ Len(read) = 0 /\ \E line \in FirstLines : ReadLine(line)
    \/ Len(read) = 1 /\ \E line \in AllPaths : ReadLine(line)

SpecExt == Init /\ [][NextExt]_vars


\* --------------------------------------------------- the test helper

\* tests::count_extensions (lines 82-96) on the first n paths of input: the
\* path is tested for emptiness and handed to Path::new as it comes.
RECURSIVE CountExtensionsUpTo(_, _)
CountExtensionsUpTo(input, n) ==
    IF n = 0 THEN EmptyMap
    ELSE LET m == CountExtensionsUpTo(input, n - 1)
             path == input[n]
         IN IF path = <<>> THEN m ELSE Increment(m, ExtOf(path))

CountExtensions(input) == CountExtensionsUpTo(input, Len(input))

\* ----------------------------------------------- vocabulary of the claims

\* The line read last and the path main makes of it.
LastLine == read[Len(read)]
LastPath == Trim(LastLine)

IsBlank(line) == \A i \in 1..Len(line) : line[i] = " "

\* The lines read so far that are not blank and whose extension key is k.
LinesWithKey(k) ==
    {i \in 1..Len(read) : ~IsBlank(read[i]) /\ ExtOf(Trim(read[i])) = k}

CountOrZero(m, k) == IF k \in DOMAIN m THEN m[k] ELSE 0

\* m2 is m1 with the count of k one higher and nothing else changed.
OnlyKeyIncremented(m1, m2, k) ==
    /\ DOMAIN m2 = DOMAIN m1 \cup {k}
    /\ m2[k] = CountOrZero(m1, k) + 1
    /\ \A x \in DOMAIN m1 \ {k} : m2[x] = m1[x]

HasNoDot(s) == \A i \in 1..Len(s) : s[i] # "."

\* A segment with no ".", or one that starts with "." and has no further ".".
NoExtensionShape(seg) ==
    \/ HasNoDot(seg)
    \/ seg # <<>> /\ Head(seg) = "." /\ HasNoDot(Tail(seg))

RECURSIVE DropTrailingSlashes(_)
DropTrailingSlashes(s) ==
    IF s # <<>> /\ s[Len(s)] = "/"
    THEN DropTrailingSlashes(SubSeq(s, 1, Len(s) - 1)) ELSE s

\* The final segment of a path as text: what follows its last "/", trailing
\* separators aside.
TextFinalSegment(path) ==
    LET pieces == Split(DropTrailingSlashes(path)) IN pieces[Len(pieces)]

\* The pieces of a path that name something: neither empty nor ".".
NamingPieces(path) ==
    LET pieces == Split(path) IN
    {i \in 1..Len(pieces) : pieces[i] # <<>> /\ pieces[i] # <<".">>}

HasFinalComponent(path) == NamingPieces(path) # {}

\* The final component of a path: its last piece that is neither empty nor ".".
FinalComponent(path) ==
    LET idx == NamingPieces(path)
        last == CHOOSE i \in idx : \A j \in idx : j <= i
    IN Split(path)[last]

\* C1: in every state, the tally holds for each key exactly the number of
\* lines read so far that are non-blank after trimming and derive that key,
\* and holds no key that no such line derives.
C1_TallyCountsLines ==
    /\ DOMAIN counts = {ExtOf(Trim(read[i])) : i \in {j \in 1..Len(read) : ~IsBlank(read[j])}}
    /\ \A k \in DOMAIN counts : counts[k] = Cardinality(LinesWithKey(k))

\* C1 witness: three lines read, one of them blank, two on the same key.
C1_Witness ==
    /\ Len(read) = 3
    /\ \E i \in 1..3 : IsBlank(read[i])
    /\ \E k \in DOMAIN counts : counts[k] = 2

\* C2: after an iteration that read a line which is blank after trimming, the
\* tally is what the iteration found, wherever in the input the line stands.
C2_BlankLineLeavesTally ==
    (Len(read) >= 1 /\ IsBlank(LastLine)) => counts = before

\* C2 witness: a whitespace-only line was read after a path, and the
\* no-extension key is still absent.
C2_Witness ==
    /\ Len(read) >= 2
    /\ LastLine = <<" ">>
    /\ counts # EmptyMap
    /\ <<>> \notin DOMAIN counts

\* C3 as stated, the final segment read as text: ingesting a non-blank path
\* whose final segment has no ".", or starts with "." and has no further ".",
\* increments the no-extension key by one and no other key.
C3_TextSegmentNoExtension ==
    (/\ Len(read) >= 1
     /\ ~IsBlank(LastLine)
     /\ NoExtensionShape(TextFinalSegment(LastPath)))
    => OnlyKeyIncremented(before, counts, <<>>)

\* C3 amended: the same, the final segment being the path's final component,
\* its last piece that is neither empty nor ".".
C3_FinalComponentNoExtension ==
    (/\ Len(read) >= 1
     /\ ~IsBlank(LastLine)
     /\ HasFinalComponent(LastPath)
     /\ NoExtensionShape(FinalComponent(LastPath)))
    => OnlyKeyIncremented(before, counts, <<>>)

\* C3 witness: a hidden file under the current directory was ingested on top
\* of a tally that already held the no-extension key.
C3_Witness ==
    /\ Len(read) = 2
    /\ read[1] = <<"a">>
    /\ LastLine = <<".", "/", ".", "a">>
    /\ counts[<<>>] = 2
    /\ DOMAIN counts = {<<>>}


\* The letters that differ from c in case only: c itself, its capital, and
\* the small letters of its capital.
CaseVariantsOfChar(c) ==
    CASE c \in {"a", "A"} -> {"a", "A"}
      [] c \in {"b", "B"} -> {"b", "B"}
      [] c = "SIGMA" -> {"SIGMA", "sigma", "fsigma"}
      [] c \in {"sigma", "fsigma"} -> {c, "SIGMA"}
      [] OTHER -> {c}

\* The strings that differ from s in the case of letters only.
CaseVariants(s) ==
    {v \in [1..Len(s) -> Alphabet \cup {"b", "B"}] :
        \A i \in 1..Len(s) : v[i] \in CaseVariantsOfChar(s[i])}

\* Whether the path ends with its extension (its file name is its last piece).
EndsWithExtension(path) ==
    LET e == Extension(path) IN
    /\ e.some
    /\ Len(path) > Len(e.val)
    /\ path[Len(path) - Len(e.val)] = "."
    /\ SubSeq(path, Len(path) - Len(e.val) + 1, Len(path)) = e.val

\* The paths that differ from path in the case of its extension only.
ExtensionCaseVariants(path) ==
    LET e == Extension(path).val IN
    {SubSeq(path, 1, Len(path) - Len(e)) \o v : v \in CaseVariants(e)}

\* C4: extension matching is case-insensitive: every path that differs from
\* the ingested one in the letter case of the extension only derives the key
\* the ingested one incremented, and that key is the lowercased extension.
C4_CaseInsensitive ==
    (/\ Len(read) >= 1
     /\ ~IsBlank(LastLine)
     /\ EndsWithExtension(LastPath))
    => /\ ext = Some(ToLowercase(Extension(LastPath).val))
       /\ OnlyKeyIncremented(before, counts, ext.val)
       /\ \A q \in ExtensionCaseVariants(LastPath) : ExtOf(q) = ext.val

DigitValue(c) == CHOOSE d \in 0..9 : Digit(d) = c

RECURSIVE ParseDecimal(_)
ParseDecimal(s) ==
    IF s = <<>> THEN 0
    ELSE ParseDecimal(SubSeq(s, 1, Len(s) - 1)) * 10 + DigitValue(s[Len(s)])

\* The count an output line shows: the number after its last ": ".
PrintedCount(line) ==
    LET colon == CHOOSE i \in 1..Len(line) :
                    line[i] = ":" /\ \A j \in (i + 1)..Len(line) : line[j] # ":"
    IN ParseDecimal(SubSeq(line, colon + 2, Len(line)))

\* C5: of any two consecutive output lines, the count printed on the first
\* is at most the count printed on the second.
C5_ReportAscending ==
    \A i \in 1..(Len(out) - 1) : PrintedCount(out[i]) <= PrintedCount(out[i + 1])

\* C5 witness: a finished report whose two lines show different counts.
C5_Witness ==
    /\ status = "success"
    /\ Len(out) = 2
    /\ PrintedCount(out[1]) < PrintedCount(out[2])

\* The line the report is to show for key k with count c.
ExpectedLine(k, c) ==
    (IF k = <<>>
        THEN <<"[", "n", "o", " ", "e", "x", "t", "e", "n", "s", "i", "o", "n", "]">>
        ELSE <<".">> \o k)
    \o <<":", " ">> \o ToDecimal(c)

\* C6: a successful run has printed exactly one line per key of the final
\* tally, "[no extension]: c" for the empty key and ".k: c" for any other,
\* and no line at all when every input line was blank.
C6_OneLinePerKey ==
    status = "success" =>
        /\ Len(out) = Cardinality(DOMAIN counts)
        /\ \A k \in DOMAIN counts :
              Cardinality({i \in 1..Len(out) : out[i] = ExpectedLine(k, counts[k])}) = 1
        /\ \A i \in 1..Len(out) :
              \E k \in DOMAIN counts : out[i] = ExpectedLine(k, counts[k])
        /\ (\A i \in 1..Len(read) : IsBlank(read[i])) => out = <<>>

\* C6 witness: a finished report with the no-extension line and another one.
C6_Witness ==
    /\ status = "success"
    /\ Len(out) = 2
    /\ <<>> \in DOMAIN counts
    /\ \E i \in 1..3 : i <= Len(read) /\ IsBlank(read[i])

\* C7: a line is written only once the read loop is over, and from the first
\* written line on neither the input read nor the tally changes.
C7_OutputAfterInput ==
    [][/\ out' # out => (pc # "read" /\ pc' # "read")
       /\ out # <<>> => (read' = read /\ counts' = counts)]_vars

\* C7 witness: lines were read and tallied, and output has begun.
C7_Witness ==
    /\ Len(read) >= 2
    /\ out # <<>>
    /\ Len(out) < Len(vec)

\* C8: once a read has failed, nothing was and nothing will be written or
\* ingested and the run has ended in failure; a run that ended in success
\* saw no read fail.
C8_ReadFailureAborts ==
    /\ readErr => (pc = "exit" /\ status = "failure" /\ out = <<>> /\ ~ENABLED Next)
    /\ status = "success" => ~readErr

\* C8 witness: a read failed after two lines had been tallied.
C8_Witness ==
    /\ readErr
    /\ Len(read) = 2
    /\ Cardinality(DOMAIN counts) = 2

\* C9: the map count_extensions returns for the lines read so far is the
\* tally main has built from them.
C9_HelperEqualsMain == CountExtensions(read) = counts

\* What a run prints when the map yields its entries in the given order.
ReportOf(order) ==
    LET sorted == SortByKey(order) IN [i \in 1..Len(sorted) |-> FormatLine(sorted[i])]

Range(s) == {s[i] : i \in 1..Len(s)}

\* C10: whatever order the map yields its entries in, a successful run on the
\* same input prints the same set of lines and the same sequence of counts as
\* this one; where the two reports differ the key shares its count with
\* another key; and when all counts are distinct the reports are identical.
C10_ReportUpToTies ==
    status = "success" =>
        \A order \in IterOrders(counts) :
            LET other == ReportOf(order) IN
            /\ Len(other) = Len(out)
            /\ Range(other) = Range(out)
            /\ \A i \in 1..Len(out) : PrintedCount(other[i]) = PrintedCount(out[i])
            /\ \A i \in 1..Len(out) :
                  other[i] # out[i] =>
                      \E j \in 1..Len(out) :
                          j # i /\ PrintedCount(out[j]) = PrintedCount(out[i])
            /\ (\A k1, k2 \in DOMAIN counts : counts[k1] = counts[k2] => k1 = k2)
                  => other = out

\* C10 witness: a finished report of three tied keys that another iteration
\* order of the map would have printed differently.
C10_Witness ==
    /\ status = "success"
    /\ Len(out) = 3
    /\ \E order \in IterOrders(counts) : ReportOf(order) # out

====
